---------------------------- MODULE Spec2Model ----------------------------
(***************************************************************************)
(* The TMP2 temperature-sensor driver (python/pyxi/pmods/tmp2.py) and the  *)
(* I/O processor it talks to through the mailbox.                          *)
(*                                                                         *)
(* A 32-bit register word is held as the integer with the same bits in     *)
(* two's complement (bit 31 set  <=>  the integer is negative), because    *)
(* the model checker's integers are 32 bits wide.  A temperature returned  *)
(* by _reg2float has exactly one decimal digit and is held in tenths of a  *)
(* degree (25.0 is 250); -0.0 and 0.0 are both 0, as they are equal in     *)
(* Python.  Mailbox offsets are relative to pmod_const.MAILBOX_OFFSET.     *)
(***************************************************************************)
EXTENDS Integers, Sequences, FiniteSets, TLC

(***************************************************************************)
(* Bounds of the model.                                                    *)
(***************************************************************************)
\* trace keeps at most this many consecutive spin reads that returned 3
MaxPolls == 2
\* set_log_ms / start_log are called with log_ms in -2 .. MaxLogMs
MaxLogMs == 1
\* the decoder is applied to the encodings of -MaxTenths .. MaxTenths tenths
MaxTenths == 420

(***************************************************************************)
(* Program constants.                                                      *)
(***************************************************************************)
MAILBOX_PY2IOP_CMD_OFFSET == 4092
DataCell == 0
LogLenCell == 4
EndPtrCell == 8
RingSize == 1000
READ == 3
\* start_log issuing the opcode of read
START_LOG_as_read == READ
START_LOG == 7
STOP_LOG == 1
\* the value the I/O processor leaves in the command cell when it is done
CmdIdle == 0

Pow2(n) == 2 ^ n

TwoTo23 == Pow2(23)

MinWord == (-2147483647) - 1

(***************************************************************************)
(* Words from their fields: sign bit 31, biased exponent bits 30:23,       *)
(* mantissa bits 22:0.                                                     *)
(***************************************************************************)
MkWord(s, e, m) == (IF s = 1 THEN MinWord ELSE 0) + e * TwoTo23 + m

(***************************************************************************)
(* TMP2._reg2float                                                         *)
(***************************************************************************)
\* reg & 0x7fffffff
Low31(reg) == IF reg < 0 THEN (reg + 2147483647) + 1 ELSE reg

\* (reg & 0x80000000) >> 31 & 0x01
SignOf(reg) == IF reg < 0 THEN 1 ELSE 0

\* ((reg & 0x7f800000) >> 23) - 127
ExpOf(reg) == (Low31(reg) \div TwoTo23) - 127

\* reg & 0x007fffff
FracOf(reg) == Low31(reg) % TwoTo23

\* a decoder that drops the leading 1 for a zero exponent field instead
NoLeadingOne_denormal(exp) == exp = -127

\* the branch of line 222: the mantissa is taken without the leading 1
NoLeadingOne(exp) == exp = 0

\* man, as the numerator of a fraction over 2^23
ManOf(reg) ==
    IF NoLeadingOne(ExpOf(reg)) THEN FracOf(reg) ELSE TwoTo23 + FracOf(reg)

\* q / 2^shift rounded to the nearest integer, ties to even: what
\* "{0:.1f}".format does with the exact binary value (q < 2^28)
RoundShift(q, shift) ==
    IF shift > 28 THEN 0
    ELSE LET d  == Pow2(shift)
             fl == q \div d
             r2 == 2 * (q % d)
         IN  IF r2 > d \/ (r2 = d /\ fl % 2 = 1) THEN fl + 1 ELSE fl

\* float("{0:.1f}".format(pow(2,exp)*man*((sign*-2)+1))), in tenths
\* (defined for exp <= 26, where the tenths fit the checker's integers)
_reg2float(reg) ==
    IF reg = 0 THEN 0
    ELSE LET exp  == ExpOf(reg)
             q    == 10 * ManOf(reg)
             mag  == IF exp >= 23 THEN q * Pow2(exp - 23)
                     ELSE RoundShift(q, 23 - exp)
         IN  mag * ((SignOf(reg) * (-2)) + 1)

(***************************************************************************)
(* The IEEE-754 single-precision encoding of v tenths of a degree          *)
(* (round to nearest, ties to even), for 0 < |v| < 1280.                   *)
(***************************************************************************)
Abs(v) == IF v < 0 THEN -v ELSE v

\* the e with 2^e <= a/10 < 2^(e+1)
Log2Tenths(a) == CHOOSE e \in -4 .. 6 :
                    IF e >= 0 THEN 10 * Pow2(e) <= a /\ a < 10 * Pow2(e + 1)
                    ELSE 10 <= a * Pow2(-e) /\ a * Pow2(-e) < 20

RoundDiv10(n) ==
    LET fl == n \div 10
        r  == n % 10
    IN  IF r > 5 \/ (r = 5 /\ fl % 2 = 1) THEN fl + 1 ELSE fl

Encode(v) ==
    IF v = 0 THEN 0
    ELSE LET a   == Abs(v)
             e   == Log2Tenths(a)
             m24 == RoundDiv10(a * Pow2(23 - e))
         IN  IF m24 = 2 * TwoTo23
             THEN MkWord(IF v < 0 THEN 1 ELSE 0, e + 128, 0)
             ELSE MkWord(IF v < 0 THEN 1 ELSE 0, e + 127, m24 - TwoTo23)

\* the registers the co-processor's firmware is handed in the model
SampleWords == {Encode(250), Encode(-15), 0}

ExpFields == {0, 1} \cup (118 .. 134)

Mantissas == {0, 1, Pow2(22), 4718592, TwoTo23 - 1}

Temps == (-MaxTenths) .. MaxTenths

EncTable == [v \in Temps |-> Encode(v)]

DecodeWords ==
    {EncTable[v] : v \in Temps}
      \cup {MkWord(s, e, m) : s \in {0, 1}, e \in ExpFields, m \in Mantissas}

\* the values the log-end-pointer cell takes while the co-processor logs
EndPtrValues == {0, 1, 2, RingSize - 1, RingSize, RingSize + 200}

\* the raw reading the co-processor left in a slot of the log ring
RingWord(slot) == IF slot % 2 = 0 THEN Encode(250) ELSE Encode(-15)

LogMsValues == (-2) .. MaxLogMs

(***************************************************************************)
(* State.                                                                  *)
(*   mailbox   the command, data, log-length and log-end-pointer cells     *)
(*   log_ms    self.log_ms                                                 *)
(*   value     self.value, <<>> until read() has set it                    *)
(*   pc        where the driver's thread is                                *)
(*   loc       print_log's locals                                          *)
(*   call      the method called last, its argument, and self.log_ms and   *)
(*             the log-length cell as they stood when it was entered       *)
(*   trace     the MMIO accesses of that call, in order                    *)
(*   ret, err, out   what it returned, raised and printed                  *)
(*   prev      the call before it, with its trace                          *)
(*   lastLen   the last word the driver wrote to the log-length cell       *)
(*   iop, logging, ackData   the co-processor: its position, whether it    *)
(*             is logging, the data cell as it stood at its last           *)
(*             acknowledgement of a READ                                   *)
(***************************************************************************)
VARIABLES mailbox, log_ms, value, pc, loc, call, trace, ret, err, out,
          prev, lastLen, iop, logging, ackData

vars == <<mailbox, log_ms, value, pc, loc, call, trace, ret, err, out,
          prev, lastLen, iop, logging, ackData>>

driverVars == <<log_ms, value, pc, loc, call, trace, ret, err, out, prev,
                lastLen>>

NoLoc == [x |-> 0, count |-> 0, current_ptr |-> 0, end_ptr |-> 0]

\* the attributes an instance of TMP2 has a method for
Methods == {"__init__", "read", "set_log_ms", "start_log", "stop_log",
            "print_log", "_reg2float"}

HasMethod(name) == name \in Methods

\* MMIO.read: a mailbox cell, or a slot of the log ring at 12 + 4*slot
MmioRead(off) ==
    IF off \in DOMAIN mailbox THEN mailbox[off] ELSE RingWord((off - 12) \div 4)

Rd(off) == <<"r", off, MmioRead(off)>>

Wr(off, v) == <<"w", off, v>>

\* TMP2.__init__
Constructed ==
    /\ log_ms = 0
    /\ value = <<>>
    /\ pc = "idle"
    /\ loc = NoLoc
    /\ call = [op |-> "__init__", arg |-> 0, log_ms0 |-> 0, len0 |-> 0]
    /\ trace = <<>>
    /\ ret = <<>>
    /\ err = "none"
    /\ out = <<>>
    /\ prev = [op |-> "none", arg |-> 0, trace |-> <<>>, err |-> "none"]
    /\ lastLen = <<>>
    /\ iop = "wait"
    /\ logging = FALSE

Init ==
    /\ Constructed
    /\ mailbox = [o \in {MAILBOX_PY2IOP_CMD_OFFSET, DataCell, LogLenCell,
                         EndPtrCell} |-> 0]
    /\ ackData = 0

\* a method is entered: the call before it is kept in prev
Enter(op, arg) ==
    /\ pc = "idle"
    /\ call' = [op |-> op, arg |-> arg, log_ms0 |-> log_ms,
                len0 |-> mailbox[LogLenCell]]
    /\ prev' = [op |-> call.op, arg |-> call.arg, trace |-> trace, err |-> err]
    /\ ret' = <<>>
    /\ out' = <<>>
    /\ loc' = NoLoc

(***************************************************************************)
(* TMP2.read                                                               *)
(***************************************************************************)
\* a loop that spins while the cell differs from 3
PollAgain_inverted(v) == v # READ

\* a read that does not wait
PollAgain_never(v) == FALSE

\* the loop condition of lines 94-95
PollAgain(v) == v = READ

\* a read that takes the log-length cell for the data cell
ReadSource_wrong == LogLenCell

\* the cell line 97 reads
ReadSource == DataCell

Read_Call ==
    /\ Enter("read", 0)
    /\ mailbox' = [mailbox EXCEPT ![MAILBOX_PY2IOP_CMD_OFFSET] = READ]
    /\ trace' = <<Wr(MAILBOX_PY2IOP_CMD_OFFSET, READ)>>
    /\ err' = "none"
    /\ pc' = "read_poll"
    /\ UNCHANGED <<log_ms, value, lastLen, iop, logging, ackData>>

Read_Poll ==
    /\ pc = "read_poll"
    /\ LET v == MmioRead(MAILBOX_PY2IOP_CMD_OFFSET)
       IN  /\ pc' = IF PollAgain(v) THEN "read_poll" ELSE "read_data"
           /\ trace' = IF PollAgain(v) /\ Len(trace) > MaxPolls
                       THEN trace
                       ELSE Append(trace, Rd(MAILBOX_PY2IOP_CMD_OFFSET))
    /\ UNCHANGED <<mailbox, log_ms, value, loc, call, ret, err, out, prev,
                   lastLen, iop, logging, ackData>>

Read_Data ==
    /\ pc = "read_data"
    /\ value' = <<MmioRead(ReadSource)>>
    /\ ret' = <<_reg2float(MmioRead(ReadSource))>>
    /\ trace' = Append(trace, Rd(ReadSource))
    /\ pc' = "idle"
    /\ UNCHANGED <<mailbox, log_ms, loc, call, err, out, prev, lastLen, iop,
                   logging, ackData>>

(***************************************************************************)
(* TMP2.set_log_ms, TMP2.start_log, TMP2.stop_log                          *)
(***************************************************************************)
\* a check that lets -1 through
InvalidLogMs_off(ms) == ms < -1

\* the check of line 116
InvalidLogMs(ms) == ms < 0

\* a write made before self.log_ms is assigned
LogLenWord_stale(ms, old) == old

\* the word line 119 writes, self.log_ms having been assigned ms
LogLenWord(ms, old) == ms

\* the body of set_log_ms, as the callee of next (pc after it returns)
SetLogMsBody(ms, next) ==
    IF InvalidLogMs(ms)
    THEN /\ err' = "ValueError"
         /\ pc' = "idle"
         /\ trace' = <<>>
         /\ UNCHANGED <<mailbox, log_ms, lastLen>>
    ELSE /\ err' = "none"
         /\ pc' = next
         /\ log_ms' = ms
         /\ mailbox' = [mailbox EXCEPT ![LogLenCell] = LogLenWord(ms, log_ms)]
         /\ lastLen' = <<LogLenWord(ms, log_ms)>>
         /\ trace' = <<Wr(LogLenCell, LogLenWord(ms, log_ms))>>

SetLogMs(ms) ==
    /\ Enter("set_log_ms", ms)
    /\ SetLogMsBody(ms, "idle")
    /\ UNCHANGED <<value, iop, logging, ackData>>

StartLog_Call(ms) ==
    /\ Enter("start_log", ms)
    /\ SetLogMsBody(ms, "start_cmd")
    /\ UNCHANGED <<value, iop, logging, ackData>>

StartLog_Cmd ==
    /\ pc = "start_cmd"
    /\ mailbox' = [mailbox EXCEPT ![MAILBOX_PY2IOP_CMD_OFFSET] = START_LOG]
    /\ trace' = Append(trace, Wr(MAILBOX_PY2IOP_CMD_OFFSET, START_LOG))
    /\ pc' = "idle"
    /\ UNCHANGED <<log_ms, value, loc, call, ret, err, out, prev, lastLen,
                   iop, logging, ackData>>

StopLog ==
    /\ Enter("stop_log", 0)
    /\ mailbox' = [mailbox EXCEPT ![MAILBOX_PY2IOP_CMD_OFFSET] = STOP_LOG]
    /\ trace' = <<Wr(MAILBOX_PY2IOP_CMD_OFFSET, STOP_LOG)>>
    /\ err' = "none"
    /\ pc' = "idle"
    /\ UNCHANGED <<log_ms, value, lastLen, iop, logging, ackData>>

(***************************************************************************)
(* TMP2.print_log                                                          *)
(***************************************************************************)
\* the offset line 188 reads in iteration x
EntryOffset(x, current_ptr) == (3 + x) * 4

\* the method line 189 looks up on self
DecoderName == "reg2float"

\* lines 176-184
Window(e) ==
    IF e >= RingSize
    THEN [x |-> 0, count |-> RingSize, current_ptr |-> e - 999,
          end_ptr |-> e - RingSize]
    ELSE [x |-> 0, count |-> e, current_ptr |-> 0, end_ptr |-> e]

\* lines 190-193
NextPtr(p) == IF p < 999 THEN p + 1 ELSE 0

PrintLog_Call ==
    /\ Enter("print_log", 0)
    /\ mailbox' = [mailbox EXCEPT ![MAILBOX_PY2IOP_CMD_OFFSET] = STOP_LOG]
    /\ trace' = <<Wr(MAILBOX_PY2IOP_CMD_OFFSET, STOP_LOG)>>
    /\ err' = "none"
    /\ pc' = "print_end"
    /\ UNCHANGED <<log_ms, value, lastLen, iop, logging, ackData>>

PrintLog_ReadEnd ==
    /\ pc = "print_end"
    /\ loc' = Window(MmioRead(EndPtrCell))
    /\ trace' = Append(trace, Rd(EndPtrCell))
    /\ pc' = "print_loop"
    /\ UNCHANGED <<mailbox, log_ms, value, call, ret, err, out, prev,
                   lastLen, iop, logging, ackData>>

\* one iteration of the loop of lines 187-193; the lookup of the decoder
\* on self raises AttributeError when the class has no such method
PrintLog_Entry ==
    /\ pc = "print_loop"
    /\ loc.x < loc.count
    /\ LET off == EntryOffset(loc.x, loc.current_ptr)
       IN  /\ trace' = Append(trace, Rd(off))
           /\ IF HasMethod(DecoderName)
              THEN /\ out' = Append(out, <<loc.x, _reg2float(MmioRead(off))>>)
                   /\ loc' = [loc EXCEPT !.x = loc.x + 1,
                                         !.current_ptr = NextPtr(loc.current_ptr)]
                   /\ UNCHANGED <<pc, err>>
              ELSE /\ err' = "AttributeError"
                   /\ pc' = "idle"
                   /\ loc' = NoLoc
                   /\ out' = out
    /\ UNCHANGED <<mailbox, log_ms, value, call, ret, prev, lastLen, iop,
                   logging, ackData>>

PrintLog_Done ==
    /\ pc = "print_loop"
    /\ loc.x >= loc.count
    /\ pc' = "idle"
    /\ loc' = NoLoc
    /\ UNCHANGED <<mailbox, log_ms, value, call, trace, ret, err, out, prev,
                   lastLen, iop, logging, ackData>>

(***************************************************************************)
(* The I/O processor's firmware: it serves the opcode in the command cell  *)
(* and clears the cell when it is done.                                    *)
(***************************************************************************)
Iop_Sample(w) ==
    /\ iop = "wait"
    /\ mailbox[MAILBOX_PY2IOP_CMD_OFFSET] = READ
    /\ mailbox' = [mailbox EXCEPT ![DataCell] = w]
    /\ iop' = "sampled"
    /\ UNCHANGED <<driverVars, logging, ackData>>

Iop_AckRead ==
    /\ iop = "sampled"
    /\ mailbox' = [mailbox EXCEPT ![MAILBOX_PY2IOP_CMD_OFFSET] = CmdIdle]
    /\ ackData' = mailbox[DataCell]
    /\ iop' = "wait"
    /\ UNCHANGED <<driverVars, logging>>

Iop_StartLog ==
    /\ iop = "wait"
    /\ mailbox[MAILBOX_PY2IOP_CMD_OFFSET] = START_LOG
    /\ mailbox' = [mailbox EXCEPT ![MAILBOX_PY2IOP_CMD_OFFSET] = CmdIdle,
                                  ![EndPtrCell] = 0]
    /\ logging' = TRUE
    /\ UNCHANGED <<driverVars, iop, ackData>>

Iop_StopLog ==
    /\ iop = "wait"
    /\ mailbox[MAILBOX_PY2IOP_CMD_OFFSET] = STOP_LOG
    /\ mailbox' = [mailbox EXCEPT ![MAILBOX_PY2IOP_CMD_OFFSET] = CmdIdle]
    /\ logging' = FALSE
    /\ UNCHANGED <<driverVars, iop, ackData>>

\* while logging, the end pointer moves on as readings are recorded
Iop_Log ==
    /\ iop = "wait"
    /\ logging
    /\ \E e \in EndPtrValues :
          /\ e > mailbox[EndPtrCell]
          /\ mailbox' = [mailbox EXCEPT ![EndPtrCell] = e]
    /\ UNCHANGED <<driverVars, iop, logging, ackData>>

Driver ==
    \/ Read_Call
    \/ Read_Poll
    \/ Read_Data
    \/ \E ms \in LogMsValues : SetLogMs(ms)
    \/ \E ms \in LogMsValues : StartLog_Call(ms)
    \/ StartLog_Cmd
    \/ StopLog
    \/ PrintLog_Call
    \/ PrintLog_ReadEnd
    \/ PrintLog_Entry
    \/ PrintLog_Done

Iop ==
    \/ \E w \in SampleWords : Iop_Sample(w)
    \/ Iop_AckRead
    \/ Iop_StartLog
    \/ Iop_StopLog
    \/ Iop_Log

Next == Driver \/ Iop

Spec == Init /\ [][Next]_vars

\* the driver's thread keeps running, and the firmware keeps serving READ
FairSpec ==
    /\ Spec
    /\ WF_vars(Read_Poll)
    /\ WF_vars(Read_Data)
    /\ WF_vars(\E w \in SampleWords : Iop_Sample(w))
    /\ WF_vars(Iop_AckRead)

(***************************************************************************)
(* The decoder on its own: the sensor holds one reading, any of            *)
(* DecodeWords, and the driver reads it.                                   *)
(***************************************************************************)
DecodeInit ==
    /\ Constructed
    /\ \E w \in DecodeWords :
          /\ mailbox = [o \in {MAILBOX_PY2IOP_CMD_OFFSET, DataCell, LogLenCell,
                               EndPtrCell} |-> IF o = DataCell THEN w ELSE 0]
          /\ ackData = w

DecodeNext ==
    \/ Read_Call
    \/ Read_Poll
    \/ Read_Data
    \/ Iop_Sample(mailbox[DataCell])
    \/ Iop_AckRead

DecodeSpec == DecodeInit /\ [][DecodeNext]_vars

(***************************************************************************)
(* Properties.                                                             *)
(***************************************************************************)
\* method op has been called last and has returned or raised
Done(op) == pc = "idle" /\ call.op = op

Min(a, b) == IF a < b THEN a ELSE b

\* C1: when read() has returned, its MMIO accesses were, in order: one
\* write of 3 to the command cell, reads of the command cell that all
\* returned 3 but the last, one read of the data cell (+0); and it
\* returned the decoding of the data cell as the co-processor left it when
\* it cleared the command cell.
C1_ReadProtocol ==
    Done("read") =>
       LET n == Len(trace)
       IN  /\ n >= 3
           /\ trace[1] = <<"w", 4092, 3>>
           /\ \A i \in 2 .. (n - 2) : trace[i] = <<"r", 4092, 3>>
           /\ trace[n - 1][1] = "r"
           /\ trace[n - 1][2] = 4092
           /\ trace[n - 1][3] # 3
           /\ trace[n] = <<"r", 0, ackData>>
           /\ mailbox[0] = ackData
           /\ value = <<ackData>>
           /\ ret = <<_reg2float(ackData)>>

C1_Witness ==
    /\ Done("read")
    /\ Len(trace) = 5
    /\ ackData = Encode(250)
    /\ ret = <<250>>
    /\ prev.op = "read"
    /\ prev.trace[Len(prev.trace)] = <<"r", 0, Encode(-15)>>

\* C2: a set_log_ms or start_log called with a negative log_ms has raised
\* ValueError, has made no MMIO access (so neither the log-length cell nor
\* opcode 7 was written) and has left self.log_ms and the log-length cell
\* as they were.
C2_NegativeRejected ==
    (call.op \in {"set_log_ms", "start_log"} /\ call.arg < 0) =>
       /\ pc = "idle"
       /\ err = "ValueError"
       /\ trace = <<>>
       /\ log_ms = call.log_ms0
       /\ mailbox[4] = call.len0

C2_Witness ==
    /\ call.op = "start_log"
    /\ call.arg = -1
    /\ err = "ValueError"
    /\ log_ms = 1
    /\ mailbox[4] = 1
    /\ mailbox[4092] # 7

\* C3: self.log_ms is never negative, and once the driver has written the
\* log-length cell, self.log_ms is the last value it wrote there.
C3_LogMsInvariant ==
    /\ log_ms >= 0
    /\ lastLen # <<>> => (lastLen = <<log_ms>> /\ mailbox[4] = log_ms)

C3_Witness ==
    /\ prev.op = "set_log_ms"
    /\ prev.arg = 1
    /\ prev.trace = <<<<"w", 4, 1>>>>
    /\ call.op = "set_log_ms"
    /\ call.arg = -2
    /\ pc = "idle"
    /\ log_ms = 1
    /\ lastLen = <<1>>

\* C4: start_log(ms), ms >= 0, followed by stop_log() makes exactly three
\* MMIO accesses, all writes: ms to +4, 7 to the command cell, 1 to the
\* command cell.
C4_StartStopWrites ==
    (Done("stop_log") /\ prev.op = "start_log" /\ prev.arg >= 0) =>
       prev.trace \o trace
          = << <<"w", 4, prev.arg>>, <<"w", 4092, 7>>, <<"w", 4092, 1>> >>

C4_Witness ==
    /\ Done("stop_log")
    /\ prev.op = "start_log"
    /\ prev.arg = 1
    /\ prev.err = "none"
    /\ Len(trace) = 1

\* the end pointer print_log read, and the ring slots it read after it
EndRead == trace[2][3]

SlotRead(i) == (trace[i + 2][2] - 12) \div 4

EntriesRead == Len(trace) - 2

\* C5: when print_log has ended, with e the end pointer it read: it has
\* read min(e, 1000) log entries, the i-th (from 0) at slot i when
\* e < 1000 and at slot (e - 1000 + i) mod 1000 when e >= 1000.
C5_RingSlots ==
    Done("print_log") =>
       /\ EntriesRead = Min(EndRead, 1000)
       /\ \A i \in 1 .. EntriesRead :
             SlotRead(i) = IF EndRead < 1000 THEN i - 1
                           ELSE (EndRead - 1000 + (i - 1)) % 1000

\* C6: when print_log has ended it has written 1 to the command cell, then
\* read the end pointer e at +8, has raised nothing, and has emitted
\* min(e, 1000) pairs (i, decoding of the i-th word read), i = 0, 1, ...
C6_PrintLogOutput ==
    Done("print_log") =>
       /\ trace[1] = <<"w", 4092, 1>>
       /\ trace[2][1] = "r"
       /\ trace[2][2] = 8
       /\ err = "none"
       /\ Len(out) = Min(EndRead, 1000)
       /\ \A i \in 1 .. Len(out) :
             /\ i + 2 <= Len(trace)
             /\ out[i] = <<i - 1, _reg2float(trace[i + 2][3])>>

\* C7: under a fair co-processor every read() returns; and read() leaves
\* its polling loop only on seeing the command cell differ from 3: while
\* the cell holds 3 it stays in the loop, raises nothing and writes nothing.
C7_ReadTermination ==
    /\ (pc = "read_poll") ~> (pc = "idle")
    /\ [][(pc = "read_poll" /\ mailbox[4092] = 3) =>
             /\ pc' = "read_poll"
             /\ err' = "none"
             /\ ret' = <<>>
             /\ \A i \in 2 .. Len(trace') : trace'[i] = <<"r", 4092, 3>>]_vars

C7_Witness ==
    /\ Done("read")
    /\ Len(trace) = MaxPolls + 3
    /\ trace[MaxPolls + 2] = <<"r", 4092, 0>>
    /\ value = <<Encode(-15)>>
    /\ ret # <<>>

\* C8: a word that encodes a temperature v (IEEE-754 single precision, one
\* decimal digit) decodes to v; 0 decodes to 0.0; setting the sign bit
\* negates the result.
C8_DecodesIeee ==
    Done("read") =>
       LET reg == value[1]
       IN  /\ \A v \in Temps : (reg = EncTable[v] => ret = <<v>>)
           /\ reg = 0 => ret = <<0>>
           /\ reg > 0 => _reg2float(reg + MinWord) = -(ret[1])

\* a step in which the driver writes the command cell
CmdWriteStep ==
    /\ driverVars' # driverVars
    /\ trace' # <<>>
    /\ trace'[Len(trace')][1] = "w"
    /\ trace'[Len(trace')][2] = 4092

\* C9 as claimed: the driver writes an opcode to the command cell only
\* when the co-processor has cleared the opcode issued before.
C9_WritesOnlyWhenCleared ==
    [][CmdWriteStep => mailbox[4092] \notin {1, 3, 7}]_vars

\* C9 as amended: the driver never overwrites an opcode 3 that the
\* co-processor has not cleared: when a method is entered the command cell
\* does not hold 3.
C9_ReadNeverOverwritten ==
    [][CmdWriteStep => mailbox[4092] # 3]_vars

C9_Witness ==
    /\ Done("stop_log")
    /\ prev.op = "read"
    /\ mailbox[4092] = 1
    /\ iop = "wait"

\* C10: for a nonzero word with exponent field f (bits 30:23) and mantissa
\* m (bits 22:0), the result is 2^(f-127) * s rounded to one decimal digit,
\* with the sign of bit 31, where s = m/2^23 when f = 127 and
\* s = 1 + m/2^23 otherwise (f = 0 included).
C10_LiteralSignificand ==
    (Done("read") /\ value[1] # 0) =>
       LET reg   == value[1]
           low   == IF reg < 0 THEN reg - MinWord ELSE reg
           f     == low \div 8388608
           m     == low % 8388608
           s     == IF f = 127 THEN m ELSE 8388608 + m
           t     == ret[1]
           a     == IF t < 0 THEN -t ELSE t
           shift == 150 - f
           d     == 2 ^ shift
           diff  == 10 * s - a * d
       IN  /\ reg < 0 => t <= 0
           /\ reg > 0 => t >= 0
           /\ IF shift > 28 THEN a = 0
              ELSE 2 * diff <= d /\ 2 * diff >= -d

C10_Witness ==
    /\ Done("read")
    /\ value = <<MkWord(0, 127, 4194304)>>
    /\ ret = <<5>>

=============================================================================
